---------------------------- MODULE Spec2Model ----------------------------
(***************************************************************************)
(* The CRUD resource service of src/problem5: the validation middleware,   *)
(* the ResourceController handlers and the SQLite table they run against.  *)
(*                                                                         *)
(* A JavaScript string is a sequence of one-symbol strings.  The values    *)
(* that are not strings (undefined, null, a number) are one-element        *)
(* sequences holding a word that is no symbol, so that every value can be  *)
(* compared with every other.  The words of the status enumeration are     *)
(* taken as one symbol each.                                               *)
(***************************************************************************)
EXTENDS Integers, Sequences, FiniteSets, TLC

\* ------------------------------------------------------------------ bounds
MaxId == 2          \* largest row id the model lets the store hand out or accept
MaxTime == 1        \* largest value of the clock behind CURRENT_TIMESTAMP
MaxInstances == 3   \* the DatabaseConnection objects the module makes in a run
MaxN == 8           \* sum_to_n is called on the integers from -MaxN to MaxN
MaxCallStack == 6   \* the frames of sum_to_n_c the call stack holds (thousands in
                    \* the engine; small here so that the inputs reach it)

\* ------------------------------------------------------- JavaScript values
UNDEFINED == <<"undefined">>     \* a key the JSON body / query does not hold
NULL == <<"null">>               \* JavaScript null, SQL NULL
NUM42 == <<"#42">>               \* a JSON number where a string is expected
NoRow == [undefined |-> TRUE]    \* undefined where a row object is expected
WS == " "                        \* the whitespace symbol

IsString(v) == v \notin {UNDEFINED, NULL, NUM42}
\* JavaScript truthiness: undefined, null and "" are falsy, 42 and any other string truthy
Truthy(v) == v \notin {UNDEFINED, NULL, <<>>}

Has(body, k) == k \in DOMAIN body
Get(body, k) == IF Has(body, k) THEN body[k] ELSE UNDEFINED
Put(body, k, v) == [x \in DOMAIN body \cup {k} |-> IF x = k THEN v ELSE body[x]]

\* s holds whitespace only
Blank(s) == \A i \in 1..Len(s) : s[i] = WS
\* String.prototype.trimStart: s from its first symbol that is not whitespace
TrimStart(s) ==
    IF Blank(s) THEN <<>>
    ELSE SubSeq(s, CHOOSE i \in 1..Len(s) : s[i] # WS /\ \A j \in 1..(i - 1) : s[j] = WS, Len(s))
\* String.prototype.trimEnd: s up to its last symbol that is not whitespace
TrimEnd(s) ==
    IF Blank(s) THEN <<>>
    ELSE SubSeq(s, 1, CHOOSE i \in 1..Len(s) : s[i] # WS /\ \A j \in (i + 1)..Len(s) : s[j] = WS)
\* String.prototype.trim
Trim(s) == TrimEnd(TrimStart(s))

\* ------------------------------------------------------- program constants
MaxNameLen == 255
MaxDescriptionLen == 1000
MaxCategoryLen == 100
MaxLimit == 100
DefaultLimit == 10
DefaultOffset == 0
ACTIVE == <<"active">>
INACTIVE == <<"inactive">>
ARCHIVED == <<"archived">>
StatusEnum == {ACTIVE, INACTIVE, ARCHIVED}

\* --------------------------------------------------------------- responses
\* the error classes without their statusCode field: errorHandler answers 500
ValidationErrorNoStatus(msg) ==
    [success |-> FALSE, status |-> 500, message |-> "Internal Server Error", data |-> NoRow]
NotFoundErrorNoStatus(msg) ==
    [success |-> FALSE, status |-> 500, message |-> "Internal Server Error", data |-> NoRow]
ValidationError(msg) == [success |-> FALSE, status |-> 400, message |-> msg, data |-> NoRow]
NotFoundError(msg) == [success |-> FALSE, status |-> 404, message |-> msg, data |-> NoRow]
DatabaseError(msg) == [success |-> FALSE, status |-> 500, message |-> msg, data |-> NoRow]
\* errorHandler with statusCode left at 200 for an error that carries none
InternalErrorNoDefault == [success |-> FALSE, status |-> 200, message |-> "Internal Server Error", data |-> NoRow]
\* errorHandler on an error that carries no statusCode (a raw SQLite error)
InternalError == [success |-> FALSE, status |-> 500, message |-> "Internal Server Error", data |-> NoRow]
Ok(code, msg, d) == [success |-> TRUE, status |-> code, message |-> msg, data |-> d]

\* ------------------------------------------------------------- validation
\* The message of the first failing check, or "" when the body passes.
validateCreateResourceError(body) ==
    LET name == Get(body, "name")
        description == Get(body, "description")
        category == Get(body, "category")
        status == Get(body, "status")
    IN  IF ~Truthy(name) \/ ~IsString(name) \/ Len(Trim(name)) = 0
          THEN "Name is required and must be a non-empty string"
        ELSE IF Len(name) > MaxNameLen
          THEN "Name must be less than 255 characters"
        ELSE IF description # UNDEFINED /\ ~IsString(description)
          THEN "Description must be a string"
        ELSE IF description # UNDEFINED /\ Len(description) > MaxDescriptionLen
          THEN "Description must be less than 1000 characters"
        ELSE IF category # UNDEFINED /\ ~IsString(category)
          THEN "Category must be a string"
        ELSE IF category # UNDEFINED /\ Len(category) > MaxCategoryLen
          THEN "Category must be less than 100 characters"
        ELSE IF status # UNDEFINED /\ status \notin StatusEnum
          THEN "Status must be one of: active, inactive, archived"
        ELSE ""

\* name.trimStart() in place of name.trim()
SanitizeNameKeepsEnd(name) == TrimStart(name)
\* req.body.name = name.trim()
SanitizeName(name) == Trim(name)
\* The "Sanitize input" step: req.body after validateCreateResource called next().
validateCreateResourceBody(body) ==
    LET b1 == Put(body, "name", SanitizeName(body["name"]))
        b2 == IF Truthy(Get(body, "description"))
                THEN Put(b1, "description", Trim(body["description"])) ELSE b1
        b3 == IF Truthy(Get(body, "category"))
                THEN Put(b2, "category", Trim(body["category"])) ELSE b2
    IN  b3

validateUpdateResourceError(body) ==
    LET name == Get(body, "name")
        description == Get(body, "description")
        category == Get(body, "category")
        status == Get(body, "status")
    IN  IF ~Truthy(name) /\ ~Truthy(description) /\ ~Truthy(category) /\ ~Truthy(status)
          THEN "At least one field must be provided for update"
        ELSE IF name # UNDEFINED /\ (~IsString(name) \/ Len(Trim(name)) = 0)
          THEN "Name must be a non-empty string"
        ELSE IF name # UNDEFINED /\ Len(name) > MaxNameLen
          THEN "Name must be less than 255 characters"
        ELSE IF description # UNDEFINED /\ ~IsString(description)
          THEN "Description must be a string"
        ELSE IF description # UNDEFINED /\ Len(description) > MaxDescriptionLen
          THEN "Description must be less than 1000 characters"
        ELSE IF category # UNDEFINED /\ ~IsString(category)
          THEN "Category must be a string"
        ELSE IF category # UNDEFINED /\ Len(category) > MaxCategoryLen
          THEN "Category must be less than 100 characters"
        ELSE IF status # UNDEFINED /\ status \notin StatusEnum
          THEN "Status must be one of: active, inactive, archived"
        ELSE ""

\* req.body after validateUpdateResource called next(): the present strings trimmed
validateUpdateResourceBody(body) ==
    [k \in DOMAIN body |->
        IF k \in {"name", "description", "category"} THEN Trim(body[k]) ELSE body[k]]


\* ------------------------------------------------------------------ numbers
Digits == <<"0", "1", "2", "3", "4", "5", "6", "7", "8", "9">>
IsDigit(c) == \E i \in 1..10 : Digits[i] = c
DigitValue(c) == (CHOOSE i \in 1..10 : Digits[i] = c) - 1
DigitString(n) == <<Digits[n + 1]>>

RECURSIVE AllDigits(_)
AllDigits(s) == s = <<>> \/ (IsDigit(Head(s)) /\ AllDigits(Tail(s)))
RECURSIVE DigitsValue(_)
DigitsValue(s) == IF s = <<>> THEN 0 ELSE 10 * DigitsValue(SubSeq(s, 1, Len(s) - 1)) + DigitValue(s[Len(s)])
DotAt(s) == IF \E i \in 1..Len(s) : s[i] = "." THEN CHOOSE i \in 1..Len(s) : s[i] = "." ELSE 0

NaN == [nan |-> TRUE, neg |-> FALSE, whole |-> 0, frac |-> FALSE]
Zero == [nan |-> FALSE, neg |-> FALSE, whole |-> 0, frac |-> FALSE]
\* digits[.digits] or .digits; whole is the integer part, frac tells whether a
\* non-zero fraction follows it
UnsignedNumber(s) ==
    LET d == DotAt(s)
        w == IF d = 0 THEN s ELSE SubSeq(s, 1, d - 1)
        f == IF d = 0 THEN <<>> ELSE SubSeq(s, d + 1, Len(s))
    IN  IF (w = <<>> /\ f = <<>>) \/ ~AllDigits(w) \/ ~AllDigits(f)
          THEN NaN
          ELSE [nan |-> FALSE, neg |-> FALSE, whole |-> DigitsValue(w), frac |-> DigitsValue(f) # 0]
\* Number(value) for a value that is undefined, null, a number or a string holding
\* a decimal numeral: whitespace around the numeral is dropped, the empty string
\* is 0, a string that is no decimal numeral is NaN.
Number(s) ==
    IF s = UNDEFINED THEN NaN
    ELSE IF s = NULL THEN Zero
    ELSE IF s = NUM42 THEN [nan |-> FALSE, neg |-> FALSE, whole |-> 42, frac |-> FALSE]
    ELSE IF Trim(s) = <<>> THEN Zero
    ELSE IF Head(Trim(s)) = "-"
      THEN LET u == UnsignedNumber(Tail(Trim(s))) IN [u EXCEPT !.neg = ~u.nan]
    ELSE IF Head(Trim(s)) = "+" THEN UnsignedNumber(Tail(Trim(s)))
    ELSE UnsignedNumber(Trim(s))
IsInteger(x) == ~x.nan /\ ~x.frac
IntegerOf(x) == IF x.neg THEN 0 - x.whole ELSE x.whole
\* x <= 0, x < 0, x > n for a parsed number x and a natural n
LeqZero(x) == x.neg \/ (x.whole = 0 /\ ~x.frac)
LessZero(x) == x.neg /\ (x.whole # 0 \/ x.frac)
Greater(x, n) == ~x.neg /\ (x.whole > n \/ (x.whole = n /\ x.frac))

validateResourceIdError(id) ==
    IF ~Truthy(id) \/ Number(id).nan \/ LeqZero(Number(id))
      THEN "Invalid resource ID. Must be a positive integer."
      ELSE ""

\* ---------------------------------------------------------------- the store
VARIABLES
    resources,         \* the rows of table resources
    sqlite_sequence,   \* AUTOINCREMENT: the largest rowid an INSERT has handed out
    now,               \* the clock CURRENT_TIMESTAMP reads
    req,               \* the last request
    resp,              \* the response to it
    issued,            \* history: the ids returned by successful creates, in order
    deleted,           \* history: the ids deleted and not handed out by a create since
    stats,             \* the statistics request in progress: its queries and their results
    dbCalls,           \* the db.get / db.run / db.all calls the last request made, in order
    clients,           \* the requests in progress whose handlers run statement by statement
    database,          \* config/database.ts: the singleton and the calls made on it
    sum                \* sum_to_n: the input and what each implementation gave for it
vars == <<resources, sqlite_sequence, now, req, resp, issued, deleted, stats, dbCalls,
          clients, database, sum>>
\* what the requests on the resource routes leave alone
aside == <<clients, database, sum>>

Ids(table) == {r.id : r \in table}
MaxRowid(table) == IF table = {} THEN 0 ELSE CHOOSE m \in Ids(table) : \A i \in Ids(table) : i <= m
\* OP_NewRowid without AUTOINCREMENT: one more than the largest rowid in the table
NewRowidNoAutoincrement(table, seq) == MaxRowid(table) + 1
\* id INTEGER PRIMARY KEY AUTOINCREMENT: one more than the largest rowid ever handed out
NewRowid(table, seq) == IF seq > MaxRowid(table) THEN seq + 1 ELSE MaxRowid(table) + 1

\* WHERE id = ? with a text parameter: the INTEGER column's affinity turns a
\* text that is an integer numeral into that integer; any other text matches no row.
WhereId(table, id) == {r \in table : IsInteger(Number(id)) /\ IntegerOf(Number(id)) = r.id}
\* the SELECT without its WHERE clause: the first row of the table
SelectFirst(table, id) == IF table = {} THEN NoRow ELSE CHOOSE r \in table : TRUE
\* db.get('SELECT * FROM resources WHERE id = ?'): the row, or undefined
SelectById(table, id) == IF WhereId(table, id) = {} THEN NoRow ELSE CHOOSE r \in WhereId(table, id) : TRUE

\* `value || null`
OrNull(v) == IF Truthy(v) THEN v ELSE NULL
\* `status = 'active'` in the destructuring: the default replaces undefined only
DefaultStatus(v) == IF v = UNDEFINED THEN ACTIVE ELSE v

\* INSERT INTO resources (name, description, category, status) VALUES (?, ?, ?, ?)
InsertRow(table, seq, params) ==
    [id |-> NewRowid(table, seq), name |-> params[1], description |-> params[2],
     category |-> params[3], status |-> params[4],
     created_at |-> now, updated_at |-> now]

\* The column a key of the request body names in `SET ${key} = ?`: SQLite resolves
\* identifiers without regard to letter case; "" when the table has no such column.
Columns == {"id", "name", "description", "category", "status", "created_at", "updated_at"}
LowerCase(key) == IF key = "STATUS" THEN "status" ELSE key
ColumnOf(key) == IF LowerCase(key) \in Columns THEN LowerCase(key) ELSE ""

\* Object.entries(updates) with `value !== undefined`: every key of the parsed JSON
\* body, since a parsed JSON object holds no undefined value
updateFields(updates) == DOMAIN updates
\* The value `SET ... WHERE id = ?` leaves in column c of the row
SetColumn(row, updates, c) ==
    IF \E k \in updateFields(updates) : ColumnOf(k) = c
      THEN updates[CHOOSE k \in updateFields(updates) : ColumnOf(k) = c]
      ELSE row[c]
\* The AFTER UPDATE trigger update_resources_updated_at
TriggerUpdatedAt(row) == [row EXCEPT !.updated_at = now]
\* UPDATE resources SET <fields> WHERE id = ?, the trigger included
UpdateRow(row, updates) == TriggerUpdatedAt([c \in Columns |-> SetColumn(row, updates, c)])
\* The statement fails: a key names no column, or the new id is another row's (PRIMARY KEY)
UpdateFails(table, row, updates) ==
    \/ \E k \in updateFields(updates) : ColumnOf(k) = ""
    \/ SetColumn(row, updates, "id") \in Ids(table \ {row})

\* ------------------------------------------------------------ list queries
SortColumns == {"id", "name", "category", "status", "created_at", "updated_at"}
SortOrders == {"ASC", "DESC"}
\* sortBy and sortOrder are plain words; "" is the empty (falsy) string
Word(query, k) == IF Has(query, k) THEN query[k] ELSE ""

validateQueryParamsError(query) ==
    LET status == Get(query, "status")
        limit == Get(query, "limit")
        offset == Get(query, "offset")
    IN  IF Truthy(status) /\ status \notin StatusEnum
          THEN "Status must be one of: active, inactive, archived"
        ELSE IF limit # UNDEFINED
                /\ (Number(limit).nan \/ LeqZero(Number(limit)) \/ Greater(Number(limit), MaxLimit))
          THEN "Limit must be a positive integer between 1 and 100"
        ELSE IF offset # UNDEFINED /\ (Number(offset).nan \/ LessZero(Number(offset)))
          THEN "Offset must be a non-negative integer"
        ELSE IF Word(query, "sortBy") # "" /\ Word(query, "sortBy") \notin SortColumns
          THEN "SortBy must be one of: id, name, category, status, created_at, updated_at"
        ELSE IF Word(query, "sortOrder") # "" /\ Word(query, "sortOrder") \notin SortOrders
          THEN "SortOrder must be either ASC or DESC"
        ELSE ""

\* The symbols in code point order; the words of the status column stand in it
\* where their first letters differ as the spelled-out words do.
Alphabet == <<" ", "%", "A", "C", "D", "N", "_", "a", "active", "archived", "bogus",
              "c", "d", "inactive", "n">>
Ord(c) == CHOOSE i \in 1..Len(Alphabet) : Alphabet[i] = c
\* LIKE folds the case of ASCII letters
Fold(c) == CASE c = "A" -> "a" [] c = "C" -> "c" [] c = "D" -> "d" [] c = "N" -> "n" [] OTHER -> c

RECURSIVE Like(_, _)
\* text LIKE pattern: % matches any run of symbols, _ any one symbol
Like(pattern, text) ==
    IF pattern = <<>> THEN text = <<>>
    ELSE IF Head(pattern) = "%"
      THEN Like(Tail(pattern), text) \/ (text # <<>> /\ Like(pattern, Tail(text)))
    ELSE /\ text # <<>>
         /\ (Head(pattern) = "_" \/ Fold(Head(pattern)) = Fold(Head(text)))
         /\ Like(Tail(pattern), Tail(text))
\* column LIKE `%${search}%`; NULL LIKE anything is not true
LikeSearch(value, search) == value # NULL /\ Like(<<"%">> \o search \o <<"%">>, value)

\* The WHERE clause built from category, status and search, each used when truthy
Where(row, query) ==
    /\ Truthy(Get(query, "category")) => row.category = query["category"]
    /\ Truthy(Get(query, "status")) => row.status = query["status"]
    /\ Truthy(Get(query, "search")) =>
           LikeSearch(row.name, query["search"]) \/ LikeSearch(row.description, query["search"])
\* SELECT COUNT(*) as total FROM resources ${whereClause}
CountWhere(table, query) == Cardinality({r \in table : Where(r, query)})

RECURSIVE StrLess(_, _)
\* BINARY collation: symbol by symbol, a proper prefix first
StrLess(a, b) ==
    IF b = <<>> THEN FALSE
    ELSE IF a = <<>> THEN TRUE
    ELSE IF Head(a) # Head(b) THEN Ord(Head(a)) < Ord(Head(b))
    ELSE StrLess(Tail(a), Tail(b))
\* the order of two values of column col: NULL sorts before every value
KeyLess(col, a, b) ==
    IF col \in {"id", "created_at", "updated_at"} THEN a < b
    ELSE IF b = NULL THEN FALSE
    ELSE IF a = NULL THEN TRUE
    ELSE StrLess(a, b)
\* ORDER BY ${sortBy} ${sortOrder}: every arrangement of the rows that never puts
\* a row after one it must precede; rows of equal key come in any order
OrderBy(rows, sortBy, sortOrder) ==
    {s \in [1..Cardinality(rows) -> rows] :
        /\ \A i, j \in DOMAIN s : i # j => s[i] # s[j]
        /\ \A i, j \in DOMAIN s : i < j =>
              IF sortOrder = "DESC" THEN ~KeyLess(sortBy, s[i][sortBy], s[j][sortBy])
                                    ELSE ~KeyLess(sortBy, s[j][sortBy], s[i][sortBy])}
\* the two parameters bound in the other order: LIMIT offset OFFSET limit
LimitOffsetSwapped(s, limit, offset) ==
    SubSeq(s, limit + 1, IF limit + offset < Len(s) THEN limit + offset ELSE Len(s))
\* LIMIT ? OFFSET ?
LimitOffset(s, limit, offset) ==
    SubSeq(s, offset + 1, IF offset + limit < Len(s) THEN offset + limit ELSE Len(s))

limitOf(query) == IF Has(query, "limit") THEN Number(query["limit"])
                  ELSE [Zero EXCEPT !.whole = DefaultLimit]
offsetOf(query) == IF Has(query, "offset") THEN Number(query["offset"])
                   ELSE [Zero EXCEPT !.whole = DefaultOffset]
sortByOf(query) == IF Has(query, "sortBy") THEN query["sortBy"] ELSE "id"
sortOrderOf(query) == IF Has(query, "sortOrder") THEN query["sortOrder"] ELSE "ASC"
\* LIMIT and OFFSET take integers only (datatype mismatch otherwise); ORDER BY
\* takes a column and a direction
SelectFails(query) ==
    \/ ~IsInteger(limitOf(query)) \/ ~IsInteger(offsetOf(query))
    \/ sortByOf(query) \notin Columns
    \/ sortOrderOf(query) \notin {"ASC", "DESC", "asc", "desc"}

\* hasNext computed with <= in place of <
PaginatedInclusive(data, total, limit, offset) ==
    [success |-> TRUE, status |-> 200, message |-> "Resources retrieved successfully",
     data |-> data, total |-> total, limit |-> limit, offset |-> offset,
     hasNext |-> offset + limit <= total, hasPrev |-> offset > 0]
\* the PaginatedResources response
Paginated(data, total, limit, offset) ==
    [success |-> TRUE, status |-> 200, message |-> "Resources retrieved successfully",
     data |-> data, total |-> total, limit |-> limit, offset |-> offset,
     hasNext |-> offset + limit < total, hasPrev |-> offset > 0]

\* -------------------------------------------------------------- statistics
\* the five queries getResourceStats hands to Promise.all
StatsQueries == {"total", "active", "inactive", "archived", "categories"}
\* SELECT COUNT(*) FROM resources WHERE status = ?
CountStatus(table, status) == Cardinality({r \in table : r.status = status})
\* SELECT category, COUNT(*) as count FROM resources WHERE category IS NOT NULL
\* GROUP BY category: the rows as a function from category to count
GroupByCategory(table) ==
    [c \in {r.category : r \in table} \ {NULL} |->
        Cardinality({r \in table : r.category = c})]
\* the row a query of the five reads from the table
StatsResult(table, q) ==
    CASE q = "total" -> Cardinality(table)
      [] q = "active" -> CountStatus(table, ACTIVE)
      [] q = "inactive" -> CountStatus(table, INACTIVE)
      [] q = "archived" -> CountStatus(table, ARCHIVED)
      [] q = "categories" -> GroupByCategory(table)
\* categories.forEach(cat => { if (cat.category) categoriesObj[cat.category] = cat.count })
categoriesObj(categories) ==
    [c \in {k \in DOMAIN categories : Truthy(k)} |-> categories[c]]
\* what a query has read while it is still pending
Unread(q) == IF q = "categories" THEN << >> ELSE 0
NoStats == [op |-> "none", pending |-> {}, read |-> [q \in StatsQueries |-> Unread(q)]]
\* the data of the statistics response
StatsData(read) ==
    [total |-> read["total"],
     byStatus |-> [active |-> read["active"], inactive |-> read["inactive"],
                   archived |-> read["archived"]],
     byCategory |-> categoriesObj(read["categories"])]


\* ------------------------------------------------------ config/database.ts
\* new DatabaseConnection(): db = null, isConnected = false
DatabaseConnection == [db |-> FALSE, isConnected |-> FALSE]
\* no call of initializeDatabase / closeDatabaseConnection in progress
NoCall == [pc |-> "none", this |-> 0]
\* The module when it is loaded: no DatabaseConnection made (instances), dbInstance
\* null (0, else the place of the instance in instances), and what the last
\* initializeDatabase and the last query through getDatabase() came to.
NoDatabase ==
    [instances |-> << >>, dbInstance |-> 0, init |-> NoCall, close |-> NoCall,
     initResult |-> "none", query |-> "none"]
\* run / get / all of instance c: rejected when this.db is null, else handed to
\* the sqlite3 object, which serves it only if it was opened
Query(c) ==
    IF ~c.db THEN "Database not connected"
    ELSE IF c.isConnected THEN "done"
    ELSE "SQLITE_MISUSE"
\* `await dbInstance.initialize()` reached in module state d: dbInstance is read
\* then; initialize() throws unless its instance is connected, else runs CREATE TABLE
Initialize(d) ==
    IF d.dbInstance = 0
      THEN [d EXCEPT !.init = NoCall, !.initResult = "TypeError"]
    ELSE IF ~d.instances[d.dbInstance].isConnected
      THEN [d EXCEPT !.init = NoCall, !.initResult = "Database not connected"]
    ELSE [d EXCEPT !.init = [pc |-> "schema", this |-> d.dbInstance]]

\* ---------------------------------------------------------------- sum_to_n
\* what a call gave: a number returned, or the RangeError of a call stack used up
Returned(v) == [threw |-> FALSE, value |-> v]
Thrown == [threw |-> TRUE]
NotCalled == [called |-> FALSE]

\* Implementation A: the formula
sum_to_n_a(n) == IF n <= 0 THEN Returned(0) ELSE Returned((n * (n + 1)) \div 2)

RECURSIVE ForLoop(_, _, _)
\* for (let i = ...; i <= n; i++) sum += i, from the given i and sum
ForLoop(i, acc, n) == IF i <= n THEN ForLoop(i + 1, acc + i, n) ELSE acc
\* the loop run from 2: the first term left out
sum_to_n_b_from_two(n) == IF n <= 0 THEN Returned(0) ELSE Returned(ForLoop(2, 0, n))
\* Implementation B: the loop
sum_to_n_b(n) == IF n <= 0 THEN Returned(0) ELSE Returned(ForLoop(1, 0, n))

RECURSIVE Recurse(_, _)
\* sum_to_n_c(n) called with `frames` frames of it on the call stack already: a call
\* that finds the stack full throws, and the throw unwinds every frame
Recurse(n, frames) ==
    IF frames >= MaxCallStack THEN Thrown
    ELSE IF n <= 0 THEN Returned(0)
    ELSE IF n = 1 THEN Returned(1)
    ELSE LET rest == Recurse(n - 1, frames + 1)
         IN  IF rest.threw THEN Thrown ELSE Returned(n + rest.value)
\* Implementation C: the recursion
sum_to_n_c(n) == Recurse(n, 0)

\* an input none of the three has been called on yet
SumInput(n) == [n |-> n, a |-> NotCalled, b |-> NotCalled, c |-> NotCalled]

\* ------------------------------------------------------------------ inputs
A == <<"a">>
N == <<"n">>
BOGUS == <<"bogus">>
\* a timestamp later than any the clock reaches
Future == MaxTime + 1
\* a run of n whitespace symbols
Spaces(n) == [i \in 1..n |-> WS]
\* request bodies of POST /resources; the last name is longer than MaxNameLen
\* only by the whitespace before it
CreateBodies ==
    { [name |-> <<WS, "a", WS>>],
      [name |-> Spaces(MaxNameLen) \o A],
      [name |-> A, description |-> <<>>, category |-> <<>>],
      [name |-> A, description |-> <<WS, "d">>, category |-> <<"c">>, status |-> INACTIVE],
      [description |-> <<"d">>],
      [name |-> A, status |-> BOGUS] }
\* request bodies of PUT /resources/:id
UpdateBodies ==
    { [name |-> <<"n", WS>>, description |-> <<>>, category |-> <<>>],
      [description |-> <<>>],
      [status |-> BOGUS],
      [name |-> N, foo |-> NUM42] }
    \cup { [name |-> N, STATUS |-> BOGUS, created_at |-> Future, id |-> i] : i \in {1, MaxId} }
\* :id of the request path: the ids the store hands out, a word and a fraction
IdParams == { DigitString(i) : i \in 1..MaxId } \cup { <<"x">>, <<"1", ".", "5">> }

\* filters of GET /resources
Filters ==
    { << >>,
      [status |-> INACTIVE],
      [category |-> <<"c">>, search |-> <<"D">>] }
\* query strings of GET /resources
Queries ==
    Filters
    \cup { Put(f, "limit", DigitString(l)) : f \in Filters, l \in 0..MaxId }
    \cup { [offset |-> <<"1">>, sortBy |-> "name", sortOrder |-> "DESC"],
           [sortOrder |-> "asc"],
           [status |-> BOGUS],
           [limit |-> <<"1", ".", "5">>],
           [search |-> <<"_">>] }

Idle == [op |-> "none"]
NoResponse == [status |-> 0, message |-> "", data |-> NoRow]

\* ------------------------------------------------------- requests in steps
\* Two requests in progress at once.  A handler runs up to its next await, the
\* connection runs the statement awaited, and the handler goes on from there;
\* between two statements of one handler the other handler's statements may run.
ClientNames == {"c1", "c2"}
\* a client with no request: pc is the statement its handler awaits, and
\* existingResource, lastID and total are the handler's locals of those names;
\* overtook (history) holds the clients whose update request had found its row
\* and not yet run its UPDATE when this one's UPDATE ran
IdleClient ==
    [pc |-> "idle", r |-> Idle, existingResource |-> NoRow, lastID |-> 0, total |-> 0,
     overtook |-> {}, resp |-> NoResponse]
NoClients == [c \in ClientNames |-> IdleClient]
\* request bodies of PUT /resources/:id sent while another request is in progress
ClientUpdateBodies ==
    { [name |-> N],
      [name |-> A, description |-> <<"d">>],
      [description |-> <<"d">>, id |-> MaxId] }
\* the requests sent while another request is in progress
ClientRequests ==
    { [op |-> "create", body |-> [name |-> A]] }
    \cup { [op |-> o, id |-> DigitString(1)] : o \in {"get", "delete"} }
    \cup { [op |-> "update", id |-> DigitString(1), body |-> b] : b \in ClientUpdateBodies }
    \cup { [op |-> "list", query |-> q] : q \in {<< >>, [limit |-> DigitString(1)]} }
\* the first statement a handler awaits
FirstStatement(op) ==
    CASE op = "create" -> "INSERT"
      [] op = "list" -> "COUNT"
      [] OTHER -> "SELECT"

\* ------------------------------------------------------------------ actions
Init ==
    /\ resources = {}
    /\ sqlite_sequence = 0
    /\ now = 0
    /\ req = Idle
    /\ resp = NoResponse
    /\ issued = << >>
    /\ deleted = {}
    /\ stats = NoStats
    /\ dbCalls = << >>
    /\ clients = NoClients
    /\ database = NoDatabase
    /\ sum = SumInput(0)

\* POST /resources: validateCreateResource, ResourceController.createResource
CreateResource ==
    /\ req = Idle
    /\ \E body \in CreateBodies :
        LET err == validateCreateResourceError(body) IN
        /\ req' = [op |-> "create", body |-> body]
        /\ IF err # ""
             THEN /\ resp' = ValidationError(err)
                  /\ dbCalls' = << >>
                  /\ UNCHANGED <<resources, sqlite_sequence, issued, deleted>>
             ELSE LET b == validateCreateResourceBody(body)
                      params == <<b["name"], OrNull(Get(b, "description")),
                                  OrNull(Get(b, "category")), DefaultStatus(Get(b, "status"))>>
                      row == InsertRow(resources, sqlite_sequence, params)
                      lastID == row.id
                  IN  /\ lastID <= MaxId
                      /\ resources' = resources \cup {row}
                      /\ sqlite_sequence' = lastID
                      /\ IF lastID = 0
                           THEN resp' = DatabaseError("Failed to create resource")
                           ELSE resp' = Ok(201, "Resource created successfully",
                                           SelectById(resources', DigitString(lastID)))
                      /\ issued' = Append(issued, lastID)
                      /\ deleted' = deleted \ {lastID}
                      /\ dbCalls' = <<"run", "get">>
        /\ UNCHANGED <<now, stats>>
        /\ UNCHANGED aside

\* GET /resources/:id: validateResourceId, ResourceController.getResourceById
GetResourceById ==
    /\ req = Idle
    /\ \E id \in IdParams :
        LET err == validateResourceIdError(id)
            resource == SelectById(resources, id)
        IN  /\ req' = [op |-> "get", id |-> id]
            /\ resp' = IF err # "" THEN ValidationError(err)
                       ELSE IF resource = NoRow THEN NotFoundError("not found")
                       ELSE Ok(200, "Resource retrieved successfully", resource)
            /\ dbCalls' = IF err # "" THEN << >> ELSE <<"get">>
            /\ UNCHANGED <<resources, sqlite_sequence, now, issued, deleted, stats>>
            /\ UNCHANGED aside

\* PUT /resources/:id: validateResourceId, validateUpdateResource,
\* ResourceController.updateResource
UpdateResource ==
    /\ req = Idle
    /\ \E id \in IdParams, body \in UpdateBodies :
        LET err == IF validateResourceIdError(id) # "" THEN validateResourceIdError(id)
                   ELSE validateUpdateResourceError(body)
            existingResource == SelectById(resources, id)
            updates == validateUpdateResourceBody(body)
        IN  /\ req' = [op |-> "update", id |-> id, body |-> body]
            /\ IF err # ""
                 THEN resp' = ValidationError(err) /\ dbCalls' = << >> /\ UNCHANGED resources
               ELSE IF existingResource = NoRow
                 THEN resp' = NotFoundError("not found") /\ dbCalls' = <<"get">>
                      /\ UNCHANGED resources
               ELSE IF updateFields(updates) = {}
                 THEN resp' = Ok(200, "No changes to update", existingResource)
                      /\ dbCalls' = <<"get">>
                      /\ UNCHANGED resources
               ELSE IF UpdateFails(resources, existingResource, updates)
                 THEN resp' = InternalError /\ dbCalls' = <<"get", "run">>
                      /\ UNCHANGED resources
               ELSE /\ resources' = (resources \ {existingResource})
                                        \cup {UpdateRow(existingResource, updates)}
                    /\ resp' = Ok(200, "Resource updated successfully",
                                  SelectById(resources', id))
                    /\ dbCalls' = <<"get", "run", "get">>
            /\ UNCHANGED <<sqlite_sequence, now, issued, deleted, stats>>
            /\ UNCHANGED aside

\* DELETE /resources/:id: validateResourceId, ResourceController.deleteResource
DeleteResource ==
    /\ req = Idle
    /\ \E id \in IdParams :
        LET err == validateResourceIdError(id)
            existingResource == SelectById(resources, id)
            changes == Cardinality(WhereId(resources, id))
        IN  /\ req' = [op |-> "delete", id |-> id]
            /\ IF err # ""
                 THEN resp' = ValidationError(err) /\ dbCalls' = << >>
                      /\ UNCHANGED <<resources, deleted>>
               ELSE IF existingResource = NoRow
                 THEN resp' = NotFoundError("not found") /\ dbCalls' = <<"get">>
                      /\ UNCHANGED <<resources, deleted>>
               ELSE /\ resources' = resources \ WhereId(resources, id)
                    /\ dbCalls' = <<"get", "run">>
                    /\ IF changes = 0
                         THEN resp' = DatabaseError("Failed to delete resource")
                              /\ UNCHANGED deleted
                         ELSE resp' = Ok(200, "Resource deleted successfully", existingResource)
                              /\ deleted' = deleted \cup {existingResource.id}
            /\ UNCHANGED <<sqlite_sequence, now, issued, stats>>
            /\ UNCHANGED aside

\* GET /resources: validateQueryParams, ResourceController.getResources
GetResources ==
    /\ req = Idle
    /\ \E query \in Queries :
        LET err == validateQueryParamsError(query)
            total == CountWhere(resources, query)
            matching == {r \in resources : Where(r, query)}
            sortOrder == IF sortOrderOf(query) \in {"DESC", "desc"} THEN "DESC" ELSE "ASC"
        IN  /\ req' = [op |-> "list", query |-> query]
            /\ dbCalls' = IF err # "" THEN << >> ELSE <<"get", "all">>
            /\ IF err # "" THEN resp' = ValidationError(err)
               ELSE IF SelectFails(query) THEN resp' = InternalError
               ELSE \E s \in OrderBy(matching, sortByOf(query), sortOrder) :
                        resp' = Paginated(
                            LimitOffset(s, IntegerOf(limitOf(query)), IntegerOf(offsetOf(query))),
                            total, IntegerOf(limitOf(query)), IntegerOf(offsetOf(query)))
            /\ UNCHANGED <<resources, sqlite_sequence, now, issued, deleted, stats>>
            /\ UNCHANGED aside

\* res.json / errorHandler has sent the response; the next request may arrive
EndRequest ==
    /\ req # Idle
    /\ req' = Idle
    /\ resp' = NoResponse
    /\ dbCalls' = << >>
    /\ UNCHANGED <<resources, sqlite_sequence, now, issued, deleted, stats>>
    /\ UNCHANGED aside

\* time passes between two requests
Tick ==
    /\ req = Idle
    /\ now < MaxTime
    /\ now' = now + 1
    /\ UNCHANGED <<resources, sqlite_sequence, req, resp, issued, deleted, stats, dbCalls>>
    /\ UNCHANGED aside

\* GET /resources/stats: ResourceController.getResourceStats hands its five
\* queries to the connection at once
GetResourceStats ==
    /\ stats = NoStats
    /\ stats' = [NoStats EXCEPT !.op = "stats", !.pending = StatsQueries]
    /\ UNCHANGED <<resources, sqlite_sequence, now, req, resp, issued, deleted, dbCalls>>
    /\ UNCHANGED aside

\* the connection runs one of the pending queries; sqlite3 runs the statements of
\* a connection one at a time, in an order the thread pool settles
StatsQuery ==
    /\ \E q \in stats.pending :
          stats' = [stats EXCEPT !.pending = @ \ {q},
                                 !.read[q] = StatsResult(resources, q)]
    /\ UNCHANGED <<resources, sqlite_sequence, now, req, resp, issued, deleted, dbCalls>>
    /\ UNCHANGED aside

\* Promise.all has resolved and res.json has sent the statistics
StatsEnd ==
    /\ stats.op = "stats"
    /\ stats.pending = {}
    /\ stats' = NoStats
    /\ UNCHANGED <<resources, sqlite_sequence, now, req, resp, issued, deleted, dbCalls>>
    /\ UNCHANGED aside

Next == CreateResource \/ GetResources \/ GetResourceById \/ UpdateResource \/ DeleteResource \/ EndRequest \/ Tick

Spec == Init /\ [][Next]_vars

\* The requests of other clients as the connection sees them while a statistics
\* request is in progress: the one statement of each that writes, run when the
\* request has passed validation and found its row.  Their responses go to those
\* clients and are not recorded in req and resp.

\* createResource of another client: its INSERT
OtherCreate ==
    /\ \E body \in CreateBodies :
        /\ validateCreateResourceError(body) = ""
        /\ LET b == validateCreateResourceBody(body)
               params == <<b["name"], OrNull(Get(b, "description")),
                           OrNull(Get(b, "category")), DefaultStatus(Get(b, "status"))>>
               row == InsertRow(resources, sqlite_sequence, params)
           IN  /\ row.id <= MaxId
               /\ resources' = resources \cup {row}
               /\ sqlite_sequence' = row.id
               /\ issued' = Append(issued, row.id)
               /\ deleted' = deleted \ {row.id}
    /\ UNCHANGED <<now, req, resp, stats, dbCalls>>
    /\ UNCHANGED aside

\* updateResource of another client: its UPDATE, the trigger included
OtherUpdate ==
    /\ \E id \in IdParams, body \in UpdateBodies :
        LET existingResource == SelectById(resources, id)
            updates == validateUpdateResourceBody(body)
        IN  /\ validateResourceIdError(id) = ""
            /\ validateUpdateResourceError(body) = ""
            /\ existingResource # NoRow
            /\ ~UpdateFails(resources, existingResource, updates)
            /\ resources' = (resources \ {existingResource})
                                \cup {UpdateRow(existingResource, updates)}
    /\ UNCHANGED <<sqlite_sequence, now, req, resp, issued, deleted, stats, dbCalls>>
    /\ UNCHANGED aside

\* deleteResource of another client: its DELETE
OtherDelete ==
    /\ \E id \in IdParams :
        /\ validateResourceIdError(id) = ""
        /\ SelectById(resources, id) # NoRow
        /\ resources' = resources \ WhereId(resources, id)
        /\ deleted' = deleted \cup {SelectById(resources, id).id}
    /\ UNCHANGED <<sqlite_sequence, now, req, resp, issued, stats, dbCalls>>
    /\ UNCHANGED aside

\* ------------------------------------------------- requests in steps: steps
\* what a statement of a request in steps leaves alone
ClientUnchanged == UNCHANGED <<now, req, resp, stats, dbCalls, database, sum>>

\* a request arrives and passes its validators; its handler reaches its first await
ClientRequest ==
    /\ \E c \in ClientNames, r \in ClientRequests :
        /\ clients[c].pc = "idle"
        /\ r.op = "create" => validateCreateResourceError(r.body) = ""
        /\ r.op \in {"get", "update", "delete"} => validateResourceIdError(r.id) = ""
        /\ r.op = "update" => validateUpdateResourceError(r.body) = ""
        /\ r.op = "list" => validateQueryParamsError(r.query) = "" /\ ~SelectFails(r.query)
        /\ clients' = [clients EXCEPT ![c] =
                [IdleClient EXCEPT !.pc = FirstStatement(r.op), !.r = r]]
    /\ UNCHANGED <<resources, sqlite_sequence, issued, deleted>>
    /\ ClientUnchanged

\* db.get('SELECT * FROM resources WHERE id = ?', [id]) of getResourceById,
\* updateResource and deleteResource, and the test of its result
ClientSelect ==
    /\ \E c \in ClientNames :
        LET r == clients[c].r
            row == SelectById(resources, r.id)
        IN  /\ clients[c].pc = "SELECT"
            /\ clients' = [clients EXCEPT ![c] =
                  IF row = NoRow
                    THEN [@ EXCEPT !.pc = "done", !.resp = NotFoundError("not found")]
                  ELSE IF r.op = "get"
                    THEN [@ EXCEPT !.pc = "done",
                             !.resp = Ok(200, "Resource retrieved successfully", row)]
                  ELSE IF r.op = "update" /\ updateFields(validateUpdateResourceBody(r.body)) = {}
                    THEN [@ EXCEPT !.pc = "done",
                             !.resp = Ok(200, "No changes to update", row)]
                  ELSE [@ EXCEPT !.existingResource = row,
                           !.pc = IF r.op = "update" THEN "UPDATE" ELSE "DELETE"]]
    /\ UNCHANGED <<resources, sqlite_sequence, issued, deleted>>
    /\ ClientUnchanged

\* db.run('DELETE FROM resources WHERE id = ?', [id]) and the test of result.changes
ClientDelete ==
    /\ \E c \in ClientNames :
        LET r == clients[c].r
            changes == Cardinality(WhereId(resources, r.id))
        IN  /\ clients[c].pc = "DELETE"
            /\ resources' = resources \ WhereId(resources, r.id)
            /\ deleted' = deleted \cup Ids(WhereId(resources, r.id))
            /\ clients' = [clients EXCEPT ![c] =
                  [@ EXCEPT !.pc = "done",
                     !.resp = IF changes = 0
                                THEN DatabaseError("Failed to delete resource")
                                ELSE Ok(200, "Resource deleted successfully",
                                        clients[c].existingResource)]]
    /\ UNCHANGED <<sqlite_sequence, issued>>
    /\ ClientUnchanged

\* db.run(`UPDATE resources SET ... WHERE id = ?`): the statement changes the row
\* that has the id now, or no row; a statement that fails goes to next(error)
ClientUpdate ==
    /\ \E c \in ClientNames :
        LET r == clients[c].r
            updates == validateUpdateResourceBody(r.body)
            row == SelectById(resources, r.id)
            others == {d \in ClientNames \ {c} :
                          clients[d].r.op = "update" /\ clients[d].pc = "UPDATE"}
        IN  /\ clients[c].pc = "UPDATE"
            /\ IF \E k \in updateFields(updates) : ColumnOf(k) = ""
                 THEN /\ clients' = [clients EXCEPT ![c] =
                              [@ EXCEPT !.pc = "done", !.resp = InternalError]]
                      /\ UNCHANGED resources
               ELSE IF row = NoRow
                 THEN /\ clients' = [clients EXCEPT ![c] =
                              [@ EXCEPT !.pc = "REFETCH", !.overtook = others]]
                      /\ UNCHANGED resources
               ELSE IF UpdateFails(resources, row, updates)
                 THEN /\ clients' = [clients EXCEPT ![c] =
                              [@ EXCEPT !.pc = "done", !.resp = InternalError]]
                      /\ UNCHANGED resources
               ELSE /\ resources' = (resources \ {row}) \cup {UpdateRow(row, updates)}
                    /\ clients' = [clients EXCEPT ![c] =
                              [@ EXCEPT !.pc = "REFETCH", !.overtook = others]]
    /\ UNCHANGED <<sqlite_sequence, issued, deleted>>
    /\ ClientUnchanged

\* updateResource: the SELECT after the UPDATE, and res.json
ClientRefetch ==
    /\ \E c \in ClientNames :
        /\ clients[c].pc = "REFETCH"
        /\ clients' = [clients EXCEPT ![c] =
              [@ EXCEPT !.pc = "done",
                 !.resp = Ok(200, "Resource updated successfully",
                             SelectById(resources, clients[c].r.id))]]
    /\ UNCHANGED <<resources, sqlite_sequence, issued, deleted>>
    /\ ClientUnchanged

\* createResource: db.run(INSERT ...) and the test of result.lastID
ClientInsert ==
    /\ \E c \in ClientNames :
        LET b == validateCreateResourceBody(clients[c].r.body)
            params == <<b["name"], OrNull(Get(b, "description")),
                        OrNull(Get(b, "category")), DefaultStatus(Get(b, "status"))>>
            row == InsertRow(resources, sqlite_sequence, params)
        IN  /\ clients[c].pc = "INSERT"
            /\ row.id <= MaxId
            /\ resources' = resources \cup {row}
            /\ sqlite_sequence' = row.id
            /\ issued' = Append(issued, row.id)
            /\ deleted' = deleted \ {row.id}
            /\ clients' = [clients EXCEPT ![c] =
                  IF row.id = 0
                    THEN [@ EXCEPT !.pc = "done",
                             !.resp = DatabaseError("Failed to create resource")]
                    ELSE [@ EXCEPT !.pc = "FETCH", !.lastID = row.id]]
    /\ ClientUnchanged

\* createResource: the SELECT of the created row by result.lastID, and res.status(201)
ClientFetch ==
    /\ \E c \in ClientNames :
        /\ clients[c].pc = "FETCH"
        /\ clients' = [clients EXCEPT ![c] =
              [@ EXCEPT !.pc = "done",
                 !.resp = Ok(201, "Resource created successfully",
                             SelectById(resources, DigitString(clients[c].lastID)))]]
    /\ UNCHANGED <<resources, sqlite_sequence, issued, deleted>>
    /\ ClientUnchanged

\* getResources: the count query
ClientCount ==
    /\ \E c \in ClientNames :
        /\ clients[c].pc = "COUNT"
        /\ clients' = [clients EXCEPT ![c] =
              [@ EXCEPT !.pc = "ROWS", !.total = CountWhere(resources, clients[c].r.query)]]
    /\ UNCHANGED <<resources, sqlite_sequence, issued, deleted>>
    /\ ClientUnchanged

\* getResources: the query of the rows, and the response built from both results
ClientRows ==
    /\ \E c \in ClientNames :
        LET query == clients[c].r.query
            matching == {r \in resources : Where(r, query)}
            sortOrder == IF sortOrderOf(query) \in {"DESC", "desc"} THEN "DESC" ELSE "ASC"
        IN  /\ clients[c].pc = "ROWS"
            /\ \E s \in OrderBy(matching, sortByOf(query), sortOrder) :
                  clients' = [clients EXCEPT ![c] =
                    [@ EXCEPT !.pc = "done",
                       !.resp = Paginated(
                           LimitOffset(s, IntegerOf(limitOf(query)), IntegerOf(offsetOf(query))),
                           clients[c].total,
                           IntegerOf(limitOf(query)), IntegerOf(offsetOf(query)))]]
    /\ UNCHANGED <<resources, sqlite_sequence, issued, deleted>>
    /\ ClientUnchanged

\* the response has been sent; the client may send its next request
ClientEnd ==
    /\ \E c \in ClientNames :
        /\ clients[c].pc = "done"
        /\ clients' = [d \in ClientNames |->
                          IF d = c THEN IdleClient
                          ELSE [clients[d] EXCEPT !.overtook = @ \ {c}]]
    /\ UNCHANGED <<resources, sqlite_sequence, issued, deleted>>
    /\ ClientUnchanged

NextClients ==
    ClientRequest \/ ClientSelect \/ ClientDelete \/ ClientUpdate \/ ClientRefetch
        \/ ClientInsert \/ ClientFetch \/ ClientCount \/ ClientRows \/ ClientEnd

SpecClients == Init /\ [][NextClients]_vars

\* ---------------------------------------------- config/database.ts: callers
\* what the callers of the database module leave alone
storeVars == <<resources, sqlite_sequence, now, req, resp, issued, deleted, stats, dbCalls>>

\* const db = getDatabase(); await db.get(...): as every controller does
GetDatabase ==
    /\ IF database.dbInstance = 0
         THEN /\ Len(database.instances) < MaxInstances
              /\ database' = [database EXCEPT
                      !.instances = Append(@, DatabaseConnection),
                      !.dbInstance = Len(database.instances) + 1,
                      !.query = Query(DatabaseConnection)]
         ELSE database' = [database EXCEPT
                      !.query = Query(database.instances[database.dbInstance])]
    /\ UNCHANGED <<storeVars, clients, sum>>

\* initializeDatabase() up to its first await
InitializeDatabase ==
    /\ database.init = NoCall
    /\ IF database.dbInstance = 0
         THEN /\ Len(database.instances) < MaxInstances
              \* connect(): this.db = new sqlite3.Database(filename, callback)
              /\ database' = [database EXCEPT
                      !.instances = Append(@, [DatabaseConnection EXCEPT !.db = TRUE]),
                      !.dbInstance = Len(database.instances) + 1,
                      !.init = [pc |-> "connect", this |-> Len(database.instances) + 1],
                      !.initResult = "pending"]
         ELSE database' = Initialize([database EXCEPT !.initResult = "pending"])
    /\ UNCHANGED <<storeVars, clients, sum>>

\* the callback of new sqlite3.Database: the file opened, or it did not
ConnectCallback ==
    /\ database.init.pc = "connect"
    /\ \E opened \in BOOLEAN :
          IF opened
            THEN database' = Initialize(
                     [database EXCEPT !.instances[database.init.this].isConnected = TRUE])
            ELSE database' = [database EXCEPT !.init = NoCall, !.initResult = "connect failed"]
    /\ UNCHANGED <<storeVars, clients, sum>>

\* initialize() after `await this.run(createTableSQL)`: run(createTriggerSQL)
\* tests this.db again, then initializeDatabase resolves
SchemaCallback ==
    /\ database.init.pc = "schema"
    /\ database' = [database EXCEPT
            !.init = NoCall,
            !.initResult = IF database.instances[database.init.this].db
                             THEN "resolved" ELSE "Database not connected"]
    /\ UNCHANGED <<storeVars, clients, sum>>

\* closeDatabaseConnection() up to its await: close() resolves at once when
\* this.db is null, and dbInstance = null follows
CloseDatabaseConnection ==
    /\ database.close = NoCall
    /\ database.dbInstance # 0
    /\ IF database.instances[database.dbInstance].db
         THEN database' = [database EXCEPT
                  !.close = [pc |-> "close", this |-> database.dbInstance]]
         ELSE database' = [database EXCEPT !.dbInstance = 0]
    /\ UNCHANGED <<storeVars, clients, sum>>

\* the callback of this.db.close, then dbInstance = null
CloseCallback ==
    /\ database.close.pc = "close"
    /\ database' = [database EXCEPT
            !.instances[database.close.this] = DatabaseConnection,
            !.dbInstance = 0,
            !.close = NoCall]
    /\ UNCHANGED <<storeVars, clients, sum>>

NextDatabase ==
    GetDatabase \/ InitializeDatabase \/ ConnectCallback \/ SchemaCallback
        \/ CloseDatabaseConnection \/ CloseCallback

SpecDatabase == Init /\ [][NextDatabase]_vars

\* ------------------------------------------------------- sum_to_n: callers
InitSum ==
    /\ resources = {}
    /\ sqlite_sequence = 0
    /\ now = 0
    /\ req = Idle
    /\ resp = NoResponse
    /\ issued = << >>
    /\ deleted = {}
    /\ stats = NoStats
    /\ dbCalls = << >>
    /\ clients = NoClients
    /\ database = NoDatabase
    /\ sum \in {SumInput(n) : n \in (0 - MaxN)..MaxN}

CallSumA ==
    /\ sum.a = NotCalled
    /\ sum' = [sum EXCEPT !.a = sum_to_n_a(sum.n)]
    /\ UNCHANGED <<resources, sqlite_sequence, now, req, resp, issued, deleted, stats,
                   dbCalls, clients, database>>

CallSumB ==
    /\ sum.b = NotCalled
    /\ sum' = [sum EXCEPT !.b = sum_to_n_b(sum.n)]
    /\ UNCHANGED <<resources, sqlite_sequence, now, req, resp, issued, deleted, stats,
                   dbCalls, clients, database>>

CallSumC ==
    /\ sum.c = NotCalled
    /\ sum' = [sum EXCEPT !.c = sum_to_n_c(sum.n)]
    /\ UNCHANGED <<resources, sqlite_sequence, now, req, resp, issued, deleted, stats,
                   dbCalls, clients, database>>

NextSum == CallSumA \/ CallSumB \/ CallSumC

SpecSum == InitSum /\ [][NextSum]_vars

\* Clients reading (getById, list, statistics) while other clients create
NextReads ==
    OtherCreate \/ GetResourceById \/ GetResources \/ EndRequest
        \/ GetResourceStats \/ StatsQuery \/ StatsEnd

SpecReads == Init /\ [][NextReads]_vars

\* A client asking for the statistics while other clients create, update and delete
NextStats ==
    OtherCreate \/ OtherUpdate \/ OtherDelete
        \/ GetResourceStats \/ StatsQuery \/ StatsEnd

SpecStats == Init /\ [][NextStats]_vars

\* ------------------------------------------------------------------ claims
Created == req.op = "create" /\ resp.status = 201
RecognizedFields == {"name", "description", "category", "status"}
\* the id a request path names, 0 when it names none
PathId(r) == IF IsInteger(Number(r.id)) THEN IntegerOf(Number(r.id)) ELSE 0

\* C1: every successful create returns an id strictly greater than every id an
\* earlier create returned, deleted or not: the ids handed out, in order, increase
\* strictly, and the id in a 201 response is the last one handed out.
C1_IdsStrictlyIncrease ==
    /\ \A i, j \in DOMAIN issued : i < j => issued[i] < issued[j]
    /\ Created => resp.data.id = issued[Len(issued)]
\* a create succeeded after the row of an earlier create had been deleted
C1_Witness ==
    /\ Created
    /\ Len(issued) >= 2
    /\ issued[1] \in deleted

\* C2: the id and created_at of a resource are the same in every state from its
\* creation until its deletion: every step, an accepted update included, leaves
\* each row present with its id and created_at, unless the step is the successful
\* delete of that row.
C2_IdAndCreatedAtImmutable ==
    [][\A r \in resources :
          \/ \E q \in resources' : q.id = r.id /\ q.created_at = r.created_at
          \/ req'.op = "delete" /\ resp'.status = 200 /\ r.id = PathId(req')]_vars

\* C3: a successful update changes, in the row it names, only the supplied fields
\* among name, description, category, status, and updated_at; every other row is
\* unchanged.
C3_UpdateChangesOnlySupplied ==
    [][(req = Idle /\ req'.op = "update" /\ resp'.status = 200) =>
          LET old == SelectById(resources, req'.id) IN
          \E new \in resources' :
              /\ resources' \ {new} = resources \ {old}
              /\ \A c \in Columns \ {"updated_at"} :
                    (c \notin RecognizedFields \/ ~Has(req'.body, c)) => new[c] = old[c]]_vars

\* C4: every stored resource has updated_at >= created_at, and a row a successful
\* update has just written carries the time of that update.
C4_UpdatedAtNotBeforeCreatedAt ==
    /\ \A r \in resources : r.updated_at >= r.created_at
    /\ (req.op = "update" /\ resp.status = 200 /\ resp.data # NoRow) => resp.data.updated_at = now

\* C5: the status of every stored resource is one of active, inactive, archived.
C5_StatusInEnum == \A r \in resources : r.status \in StatusEnum

\* the value a field of a valid payload has once surrounding whitespace is removed
Normalized(k, v) == IF k = "status" THEN v ELSE Trim(v)
\* C6: the resource a successful create returns, which is the row a getById of its
\* id reads, holds every field of the payload with the payload's value (surrounding
\* whitespace removed) and has created_at equal to updated_at.
C6_CreateRoundTrip ==
    Created =>
        /\ resp.data = SelectById(resources, DigitString(resp.data.id))
        /\ resp.data.created_at = resp.data.updated_at
        /\ \A k \in DOMAIN req.body : resp.data[k] = Normalized(k, req.body[k])

\* C7: a present empty description (likewise category) is stored as the empty
\* string, never as null, by create and by update; an absent one is stored as null
\* by create, never as the empty string.
C7_NullDistinctFromEmpty ==
    /\ Created =>
          \A k \in {"description", "category"} :
              /\ Get(req.body, k) = <<>> => resp.data[k] = <<>>
              /\ ~Has(req.body, k) => resp.data[k] = NULL
    /\ (req.op = "update" /\ resp.status = 200 /\ resp.data # NoRow) =>
          \A k \in {"description", "category"} :
              Get(req.body, k) = <<>> => resp.data[k] = <<>>

\* t is s without the whitespace around it
IsTrimOf(t, s) ==
    /\ t # <<>> => (Head(t) # WS /\ t[Len(t)] # WS)
    /\ \E i, j \in 0..Len(s) : s = Spaces(i) \o t \o Spaces(j)
C9_DeletedStaysAbsent ==
    /\ (req.op = "delete" /\ resp.status = 200) => resp.data.id = PathId(req)
    /\ \A d \in deleted : d \notin Ids(resources)
    /\ (req.op = "get" /\ PathId(req) \in deleted) => resp.status = 404

\* the filter of a list query: its category, status and search
FilterOf(query) == [k \in DOMAIN query \cap {"category", "status", "search"} |-> query[k]]
\* a list request for the rows of a filter from offset 0 with limit equal to their number
LimitIsTotal ==
    /\ req.op = "list"
    /\ DOMAIN req.query \subseteq {"category", "status", "search", "limit"}
    /\ Has(req.query, "limit")
    /\ validateQueryParamsError(FilterOf(req.query)) = ""
    /\ IsInteger(Number(req.query["limit"]))
    /\ IntegerOf(Number(req.query["limit"])) = CountWhere(resources, FilterOf(req.query))
\* C10 as claimed: for any store state and any filter, the list with offset 0 and
\* limit equal to the filter's total returns exactly total rows.
C10_LimitTotalReturnsTotal ==
    LimitIsTotal =>
        /\ resp.status = 200
        /\ Len(resp.data) = CountWhere(resources, FilterOf(req.query))
\* C10 as amended: that holds when the total is between 1 and 100, the limits
\* validateQueryParams accepts: the request is answered 200 with that total, and
\* every 200 list response whose limit is its total and offset is 0 holds total rows.
C10_LimitTotalReturnsTotalInRange ==
    /\ (LimitIsTotal /\ CountWhere(resources, FilterOf(req.query)) \in 1..MaxLimit) =>
          resp.status = 200 /\ resp.total = CountWhere(resources, FilterOf(req.query))
    /\ (req.op = "list" /\ resp.status = 200 /\ resp.offset = 0 /\ resp.limit = resp.total) =>
          Len(resp.data) = resp.total
\* a filtered list over a store holding more rows than the filter matches
C10_Witness ==
    /\ LimitIsTotal
    /\ FilterOf(req.query) # << >>
    /\ resp.status = 200
    /\ Len(resp.data) >= 1
    /\ Len(resp.data) < Cardinality(resources)

\* the limit and offset a list request asks for: the supplied ones, else the defaults
AskedLimit == IF Has(req.query, "limit") THEN IntegerOf(Number(req.query["limit"])) ELSE DefaultLimit
AskedOffset == IF Has(req.query, "offset") THEN IntegerOf(Number(req.query["offset"])) ELSE DefaultOffset
Listed == req.op = "list" /\ resp.status = 200
\* C11: every list response reports the limit and offset asked for (10 and 0 when
\* not supplied), total = the number of rows matching the filter whatever limit and
\* offset are, hasNext = (offset + limit < total) and hasPrev = (offset > 0).
C11_HasNextHasPrev ==
    Listed =>
        /\ resp.limit = AskedLimit
        /\ resp.offset = AskedOffset
        /\ resp.total = Cardinality({r \in resources : Where(r, FilterOf(req.query))})
        /\ resp.hasNext = (AskedOffset + AskedLimit < resp.total)
        /\ resp.hasPrev = (AskedOffset > 0)
\* a page that ends before the last matching row
C11_Witness ==
    /\ Listed
    /\ resp.hasNext
    /\ Len(resp.data) = resp.limit
    /\ resp.total > resp.limit

NameMessages == {"Name is required and must be a non-empty string",
                 "Name must be less than 255 characters"}
\* C14: a create is refused for its name exactly when the name is not a string of
\* 1 to 255 symbols after trimming; a missing name is answered 400 with the "Name
\* is required" message; a refused create inserts nothing.
C14_CreateNameRule ==
    [][(req = Idle /\ req'.op = "create") =>
          LET name == Get(req'.body, "name")
              valid == IsString(name) /\ Len(Trim(name)) >= 1 /\ Len(Trim(name)) <= MaxNameLen
          IN  /\ (resp'.message \in NameMessages) <=> ~valid
              /\ ~Has(req'.body, "name") =>
                    /\ resp'.status = 400
                    /\ resp'.message = "Name is required and must be a non-empty string"
              /\ resp'.status = 400 => (resources' = resources /\ issued' = issued)]_vars

\* the rule a present field of an update payload has to satisfy
FieldRuleHolds(body, k) ==
    CASE k = "name" -> IsString(body[k]) /\ Len(Trim(body[k])) >= 1 /\ Len(Trim(body[k])) <= MaxNameLen
      [] k = "description" -> IsString(body[k]) /\ Len(body[k]) <= MaxDescriptionLen
      [] k = "category" -> IsString(body[k]) /\ Len(body[k]) <= MaxCategoryLen
      [] k = "status" -> body[k] \in StatusEnum
      [] OTHER -> TRUE
\* C15: an update is refused with the 'no field' message only when its payload
\* holds none of name, description, category, status; a payload holding at least
\* one of them, each present one within its rule (description and category may be
\* empty), is not refused.
C15_UpdateNoFieldOnlyWhenNonePresent ==
    (req.op = "update" /\ validateResourceIdError(req.id) = "") =>
        /\ resp.message = "At least one field must be provided for update" =>
              DOMAIN req.body \cap RecognizedFields = {}
        /\ (/\ DOMAIN req.body \cap RecognizedFields # {}
            /\ \A k \in DOMAIN req.body \cap RecognizedFields : FieldRuleHolds(req.body, k)) =>
              resp.status # 400

\* the raw id is the numeral of a positive integer
IsPositiveInteger(id) == IsString(id) /\ IsInteger(Number(id)) /\ IntegerOf(Number(id)) > 0
\* C16: on the getById, update and delete routes a raw id that is not a positive
\* integer (non-numeric, zero, negative, fractional) is answered 400 with the
\* invalid-id message, and a positive integer is never answered so.
C16_IdAcceptedIffPositiveInteger ==
    req.op \in {"get", "update", "delete"} =>
        (IsPositiveInteger(req.id) <=>
            ~(resp.status = 400
              /\ resp.message = "Invalid resource ID. Must be a positive integer."))

\* C17: a list request is answered 400 whenever its status is present and not in
\* the enumeration, its limit is present and not an integer in 1..100, its offset
\* is present and not a non-negative integer, or its sortBy is present and not a
\* sort column; so no such request reaches the store.
C17_ListQueryRejected ==
    req.op = "list" =>
        LET q == req.query
            badStatus == Has(q, "status") /\ q["status"] \notin StatusEnum
            badLimit == Has(q, "limit") /\
                ~(IsInteger(Number(q["limit"])) /\ IntegerOf(Number(q["limit"])) >= 1
                    /\ IntegerOf(Number(q["limit"])) <= MaxLimit)
            badOffset == Has(q, "offset") /\
                ~(IsInteger(Number(q["offset"])) /\ IntegerOf(Number(q["offset"])) >= 0)
            badSortBy == Has(q, "sortBy") /\ q["sortBy"] \notin SortColumns
        IN  (badStatus \/ badLimit \/ badOffset \/ badSortBy) => resp.status = 400

\* row a comes no later than row b under sortBy in direction dir (ASC or DESC)
InOrder(sortBy, dir, a, b) ==
    IF dir = "DESC" THEN ~KeyLess(sortBy, a[sortBy], b[sortBy])
                    ELSE ~KeyLess(sortBy, b[sortBy], a[sortBy])
\* the direction a sortOrder names in any letter case
Canonical(sortOrder) == IF sortOrder \in {"DESC", "desc"} THEN "DESC" ELSE "ASC"
\* C18: a list request whose sortOrder is ASC or DESC in any letter case (and whose
\* other parameters are valid) is answered 200 with the rows sorted by sortBy in
\* that direction.
C18_SortOrderAnyCase ==
    (/\ req.op = "list"
     /\ Has(req.query, "sortOrder")
     /\ req.query["sortOrder"] \in {"ASC", "DESC", "asc", "desc"}
     /\ validateQueryParamsError([k \in DOMAIN req.query \ {"sortOrder"} |-> req.query[k]]) = "") =>
        /\ resp.status = 200
        /\ \A i, j \in DOMAIN resp.data : i < j =>
              InOrder(sortByOf(req.query), Canonical(req.query["sortOrder"]), resp.data[i], resp.data[j])

\* the one arrangement of rows sorted by sortBy in direction dir, rows of equal
\* key by ascending id
TieBroken(rows, sortBy, dir) ==
    CHOOSE s \in OrderBy(rows, sortBy, dir) :
        \A i, j \in DOMAIN s :
            (i < j /\ s[i][sortBy] = s[j][sortBy]) => s[i].id < s[j].id
\* C19: the rows a list returns are the page [offset, offset + limit) of the
\* matching rows sorted by sortBy in sortOrder with equal keys by ascending id, so
\* that the pages of successive offsets are disjoint and cover every matching row.
C19_TiesByAscendingId ==
    Listed =>
        resp.data = LimitOffset(
            TieBroken({r \in resources : Where(r, FilterOf(req.query))},
                      sortByOf(req.query), Canonical(sortOrderOf(req.query))),
            resp.limit, resp.offset)

\* search occurs in value as a run of consecutive symbols, letter case set aside
Contains(value, search) ==
    /\ value # NULL
    /\ \E i \in 0..Len(value) :
          /\ i + Len(search) <= Len(value)
          /\ \A k \in 1..Len(search) : Fold(value[i + k]) = Fold(search[k])
\* the row satisfies every supplied filter
Satisfies(row, query) ==
    /\ Has(query, "category") => row.category = query["category"]
    /\ Has(query, "status") => row.status = query["status"]
    /\ Has(query, "search") =>
          Contains(row.name, query["search"]) \/ Contains(row.description, query["search"])
\* C20: the rows a list counts in total and returns in data are exactly the rows
\* satisfying all supplied filters: category equal, status equal, search contained
\* in name or description; with no filter every row, with none satisfying data
\* empty and total 0.
C20_FiltersConjunctive ==
    Listed =>
        LET expected == {r \in resources : Satisfies(r, req.query)} IN
        /\ resp.total = Cardinality(expected)
        /\ \A i \in DOMAIN resp.data : resp.data[i] \in expected
        /\ (resp.offset = 0 /\ resp.limit >= resp.total) =>
              {resp.data[i] : i \in DOMAIN resp.data} = expected

\* the statistics response is ready to be sent
StatsDone == stats.op = "stats" /\ stats.pending = {}
\* C12: every stats response has byStatus.active + byStatus.inactive +
\* byStatus.archived = total, whatever creates, updates and deletes of other
\* clients ran between the queries of the stats request.
C12_StatsByStatusSumsToTotal ==
    StatsDone =>
        LET d == StatsData(stats.read) IN
        d.byStatus.active + d.byStatus.inactive + d.byStatus.archived = d.total

RECURSIVE SumOver(_, _)
\* the sum of f over the set keys
SumOver(f, keys) ==
    IF keys = {} THEN 0
    ELSE LET k == CHOOSE x \in keys : TRUE IN f[k] + SumOver(f, keys \ {k})
\* C13: byCategory maps exactly the distinct non-null categories of the store the
\* categories query read to their row counts, and its counts sum to the number of
\* rows whose category is not null.
C13_ByCategoryCountsNonNull ==
    [][("categories" \in stats.pending /\ "categories" \notin stats'.pending) =>
          LET byCategory == StatsData(stats'.read).byCategory IN
          /\ DOMAIN byCategory = {r.category : r \in resources} \ {NULL}
          /\ \A c \in DOMAIN byCategory :
                byCategory[c] = Cardinality({r \in resources : r.category = c})
          /\ SumOver(byCategory, DOMAIN byCategory)
                = Cardinality({r \in resources : r.category # NULL})]_vars

\* the message the validation middleware of the request's route refuses it with,
\* "" when the request passes
ValidationOf(r) ==
    CASE r.op = "create" -> validateCreateResourceError(r.body)
      [] r.op = "list" -> validateQueryParamsError(r.query)
      [] r.op \in {"get", "delete"} -> validateResourceIdError(r.id)
      [] r.op = "update" -> IF validateResourceIdError(r.id) # "" THEN validateResourceIdError(r.id)
                            ELSE validateUpdateResourceError(r.body)
      [] OTHER -> ""
C23_ReadsLeaveStoreUnchanged ==
    [][/\ ((req = Idle /\ req'.op \in {"get", "list"}) \/ stats' # stats) =>
              /\ resources' = resources
              /\ sqlite_sequence' = sqlite_sequence
       /\ (req = Idle /\ req'.op = "get" /\ ValidationOf(req') = "") =>
              IF \E r \in resources : r.id = PathId(req')
                THEN /\ resp'.status = 200
                     /\ resp'.data \in resources
                     /\ resp'.data.id = PathId(req')
                ELSE resp'.status = 404]_vars
\* a getById answered with one of two stored rows while a statistics request is
\* in progress
C23_Witness ==
    /\ req.op = "get"
    /\ resp.status = 200
    /\ Cardinality(resources) >= 2
    /\ stats.op = "stats"
    /\ stats.pending # StatsQueries

\* C24: a failed request is answered with success false, no data, and the status
\* of its error: 400 when validation refuses it, 404 when the id it names has no
\* row, 500 when a statement fails in the store; and no failed request is answered
\* with a 2xx status.
C24_ErrorEnvelope ==
    req # Idle =>
        LET invalid == ValidationOf(req) # ""
            absent == req.op \in {"get", "update", "delete"} /\ WhereId(resources, req.id) = {}
        IN  /\ resp.success <=> resp.status \in {200, 201}
            /\ ~resp.success =>
                  /\ resp.data = NoRow
                  /\ resp.status = IF invalid THEN 400 ELSE IF absent THEN 404 ELSE 500
            /\ invalid => ~resp.success
            /\ (req.op = "list" /\ ~invalid /\ SelectFails(req.query)) => ~resp.success
            /\ (req.op = "update" /\ ~invalid /\ ~absent
                  /\ \E k \in DOMAIN req.body : ColumnOf(k) = "") => ~resp.success
\* a statement of an update failed in the store
C24_Witness ==
    /\ req.op = "update"
    /\ resp.status = 500
    /\ resp.message = "Internal Server Error"

\* n(n+1)/2 when n > 0, else 0
Triangular(n) == IF n > 0 THEN (n * (n + 1)) \div 2 ELSE 0
\* the results of the implementations called so far
SumResults == {sum.a, sum.b, sum.c} \ {NotCalled}
\* C25 as claimed: for every integer n each of sum_to_n_a, sum_to_n_b, sum_to_n_c
\* returns n(n+1)/2 when n > 0 and 0 when n <= 0.
C25_SumToNAllIntegers == \A r \in SumResults : r = Returned(Triangular(sum.n))
\* C25 as amended: sum_to_n_a and sum_to_n_b return that for every n, sum_to_n_c
\* for every n its recursion has the stack for (n <= MaxCallStack) and throws
\* beyond; where all three return they agree, and what each returns for n >= 2 is
\* greater than what it returns for n - 1.
C25_SumToNWithinStack ==
    /\ sum.a # NotCalled => sum.a = Returned(Triangular(sum.n))
    /\ sum.b # NotCalled => sum.b = Returned(Triangular(sum.n))
    /\ sum.c # NotCalled =>
          sum.c = IF sum.n <= MaxCallStack THEN Returned(Triangular(sum.n)) ELSE Thrown
    /\ \A r, q \in SumResults : (~r.threw /\ ~q.threw) => r = q
    /\ sum.n >= 2 =>
          /\ sum.a # NotCalled => sum.a.value > sum_to_n_a(sum.n - 1).value
          /\ sum.b # NotCalled => sum.b.value > sum_to_n_b(sum.n - 1).value
          /\ (sum.c # NotCalled /\ ~sum.c.threw) => sum.c.value > sum_to_n_c(sum.n - 1).value
\* all three called on the largest n the recursion has the stack for
C25_Witness ==
    /\ sum.n = MaxCallStack
    /\ NotCalled \notin {sum.a, sum.b, sum.c}
    /\ sum.c = Returned(Triangular(sum.n))

\* C29: whatever the order of the calls, initializeDatabase connects a singleton
\* that is not connected before it creates the schema: it never fails with
\* 'Database not connected' (not after a getDatabase() that came first, not when
\* retried after a failed connect), and once it has resolved the queries through
\* getDatabase() run on a connected database.
C29_InitializeConnects ==
    /\ database.initResult # "Database not connected"
    /\ (database.initResult = "resolved" /\ database.close = NoCall
          /\ database.dbInstance # 0 /\ database.query # "none") =>
              database.query \in {"done"}

\* the requests of operation op that have been answered
Answered(op) == {c \in ClientNames : clients[c].pc = "done" /\ clients[c].r.op = op}

\* C26: a delete request is answered with 200, 400 or 404 under every
\* interleaving with other requests; of two concurrent deletes of one present
\* id, one gets 200 and the other 404, and neither a 500.
C26_DeleteNever500 ==
    \A c \in Answered("delete") : clients[c].resp.status \in {200, 400, 404}

\* a response body whose data is a resource with every required field set
FullyPopulated(data) ==
    /\ data # NoRow
    /\ \A f \in {"name", "status"} : data[f] \notin {NULL, UNDEFINED}
    /\ \A f \in {"id", "created_at", "updated_at"} : data[f] \in Int

\* C27: every 2xx response of create, getById, update and delete carries a
\* fully populated resource, under every interleaving of the handler's
\* statements with a delete or an update of the same id by another request.
C27_SuccessCarriesResource ==
    \A op \in {"create", "get", "update", "delete"} : \A c \in Answered(op) :
        clients[c].resp.status \in {200, 201} => FullyPopulated(clients[c].resp.data)

\* the columns the body of update request c supplies, and the value it supplies
Supplied(c) == {ColumnOf(k) : k \in updateFields(validateUpdateResourceBody(clients[c].r.body))}
SuppliedValue(c, col) == SetColumn(clients[c].existingResource,
                                   validateUpdateResourceBody(clients[c].r.body), col)

\* C28: when two update requests for one present id interleave and both
\* complete, the final row holds, for a field both supplied, the value of the
\* update that wrote last, and for a field only one supplied, that update's value.
C28_FieldLevelLastWriteWins ==
    \A c \in Answered("update") : \A d \in clients[c].overtook \cap Answered("update") :
        ( /\ clients[c].r.id = clients[d].r.id
          /\ clients[c].resp.status = 200 /\ clients[d].resp.status = 200 ) =>
            \E row \in resources :
                /\ \A col \in Supplied(d) : row[col] = SuppliedValue(d, col)
                /\ \A col \in Supplied(c) \ Supplied(d) : row[col] = SuppliedValue(c, col)

\* the smaller of two numbers, and the larger
Min(a, b) == IF a < b THEN a ELSE b
Max(a, b) == IF a > b THEN a ELSE b

\* C30: in every list response total and data describe one store state: data
\* has min(limit, max(0, total - offset)) rows, also when creates or deletes of
\* other clients run between the count query and the query of the rows.
C30_TotalMatchesData ==
    \A c \in Answered("list") :
        LET p == clients[c].resp IN
        Len(p.data) = Min(p.limit, Max(0, p.total - p.offset))

=============================================================================
